---- MODULE Spec2Model ----
(***************************************************************************)
(* Model of s3_large_upload.py: one run of main() -> S3LargeUploader       *)
(* .upload_directory(), with the ThreadPoolExecutor workers running        *)
(* _upload_file_with_retry concurrently with the orchestrating thread.     *)
(* Source files are identified by their position 1..n in the scanned list; *)
(* file i has the S3 key i and the size Size(i).                           *)
(***************************************************************************)
EXTENDS Integers, Sequences, FiniteSets, TLC

\* ---- bounds of the model ------------------------------------------------
NumItems == 2            \* at most this many files in the source directory
MaxRetriesBound == 3     \* config.max_retries ranges over 0..MaxRetriesBound
MaxConcurrencyBound == 2 \* config.max_concurrency ranges over 1..MaxConcurrencyBound
MaxKeyLen == 2           \* a key of completed_files has at most this many characters
MaxKeys == 2             \* completed_files holds at most this many keys when it is written
MaxPatterns == 1         \* include_patterns and exclude_patterns hold at most this many patterns
MaxNameLen == 2          \* a file name has at most this many characters
MaxRuns == 2             \* at most this many runs, one after the other, against one bucket

\* ---- program constants --------------------------------------------------
SaveEvery == 10          \* "if self.state.uploaded_files % 10 == 0"

\* Files (and their keys) are numbered in scan order; the numbering has room
\* for a directory large enough to reach the periodic checkpoint.
Items == 1..(SaveEvery + 1)
RetryDelays == {1, 3}    \* config.retry_delay, in seconds

\* size in bytes of the i-th file of the source directory (1KB, 2KB, 3KB, ...)
Size(i) == 1024 * i

RECURSIVE SumSizes(_)
SumSizes(n) == IF n = 0 THEN 0 ELSE Size(n) + SumSizes(n - 1)

RECURSIVE Pow2(_)
Pow2(k) == IF k = 0 THEN 1 ELSE 2 * Pow2(k - 1)

SeqToSet(s) == {s[k] : k \in 1..Len(s)}

\* ---- the persisted resume-state file -------------------------------------
\* The file is absent, or holds the JSON object written by
\* _save_upload_state, of which only 'completed_files' is ever read back.
NoFile == [kind |-> "absent", completed |-> {}]
FileOf(completed) == [kind |-> "record", completed |-> completed]
FileContents == {NoFile} \cup {FileOf(c) : c \in SUBSET (1..NumItems)}

\* Contents that _save_upload_state did not write in full: text that is not
\* JSON (for instance a truncated write), and well-formed JSON whose top level
\* is not an object (for instance []).
InvalidJson == [kind |-> "invalid_json", completed |-> {}]
NotMapping == [kind |-> "not_mapping", completed |-> {}]

\* The path named as source: missing, a regular file, or a directory holding
\* `files` regular files that pass the include/exclude filter.
Sources == {[exists |-> FALSE, is_dir |-> FALSE, files |-> 0],
            [exists |-> TRUE, is_dir |-> FALSE, files |-> 0]}
               \cup {[exists |-> TRUE, is_dir |-> TRUE, files |-> n] : n \in 0..NumItems}

VARIABLES
    source_directory, \* the directory named by config.source_directory
    config,          \* UploadConfig: max_retries, retry_delay, max_concurrency,
                     \*               resume_upload, dry_run
    state,           \* UploadState: total_files, total_size, uploaded_files,
                     \*              uploaded_size, failed_files, skipped_files
    state_file,      \* content of self.state_file on disk
    completed_files, \* the dict completed_files of upload_directory (its keys)
    previous_completed, \* the keys completed_files held when it was loaded
    files_to_upload, \* length of the list returned by _scan_directory
    pc,              \* position of the main thread in main()/upload_directory()
    next_submit,     \* index of the submit loop (line 351)
    task,            \* per file: the future / worker running _upload_file_with_retry
    upload_calls,    \* per file: number of s3_client.upload_file calls made
    head_calls,      \* per file: number of s3_client.head_object calls made
    head_result,     \* per file: what head_object answered
    delays,          \* per file: the sequence of time.sleep backoff delays
    attempt_errors,  \* per file: number of "Upload attempt N failed" log events
    save_ok,         \* outcome of the last _save_upload_state ("none" before any)
    cleared,         \* TRUE once self.state_file.unlink() has run
    exit_status,     \* exit status of the process (-1 while it runs)
    fleet,           \* two uploaders and the state files of their directory
    codec,           \* a completed_files dict on its way through json
    path_filter,     \* calls of _should_include_file under one configuration
    earlier_runs     \* what the runs before this one left in the bucket

job_vars == <<source_directory, config, state, state_file, completed_files,
              previous_completed, files_to_upload, pc,
              next_submit, task, upload_calls, head_calls, head_result, delays,
              attempt_errors, save_ok, cleared, exit_status>>

side_vars == <<fleet, codec, path_filter, earlier_runs>>

vars == <<job_vars, side_vars>>

\* The first run against a bucket: no earlier run has stored an object.
FirstRun == [runs |-> 1, stored |-> {}]

\* the variables of the studies further down, while one run is followed
SideIdle ==
    /\ fleet = [phase |-> "idle"]
    /\ codec = [phase |-> "idle"]
    /\ path_filter = [phase |-> "idle"]
    /\ earlier_runs = FirstRun

\* ---- UploadConfig / UploadState ------------------------------------------
UploadConfig == [max_retries : 0..MaxRetriesBound,
                 retry_delay : RetryDelays,
                 max_concurrency : 1..MaxConcurrencyBound,
                 resume_upload : BOOLEAN,
                 dry_run : BOOLEAN]

UploadState == [total_files |-> 0, total_size |-> 0,
                uploaded_files |-> 0, uploaded_size |-> 0,
                failed_files |-> <<>>, skipped_files |-> <<>>]

NewTask == [st |-> "none", attempt |-> 0, result |-> "none"]

\* everything but the inputs of the run
InitRun ==
    /\ state = UploadState
    /\ completed_files = {}
    /\ previous_completed = {}
    /\ files_to_upload = 0
    /\ pc = "scan"
    /\ next_submit = 1
    /\ task = [i \in Items |-> NewTask]
    /\ upload_calls = [i \in Items |-> 0]
    /\ head_calls = [i \in Items |-> 0]
    /\ head_result = [i \in Items |-> "none"]
    /\ delays = [i \in Items |-> <<>>]
    /\ attempt_errors = [i \in Items |-> 0]
    /\ save_ok = "none"
    /\ cleared = FALSE
    /\ exit_status = -1

\* A run started from the command line: main() passes no retry_delay, which
\* keeps the default of UploadConfig.
Init ==
    /\ source_directory \in Sources
    /\ config \in {c \in UploadConfig : c.retry_delay = 1}
    /\ state_file \in FileContents
    /\ InitRun
    /\ SideIdle

\* A run started from a configuration file (load_config_from_file), which may
\* set any retry_delay, on a source directory of one file.
InitFromFile ==
    /\ source_directory = [exists |-> TRUE, is_dir |-> TRUE, files |-> 1]
    /\ config \in UploadConfig
    /\ state_file \in FileContents
    /\ InitRun
    /\ SideIdle

\* A resumed run on a directory large enough for the periodic checkpoint of
\* line 374: all but the last two files are in the record of an earlier run.
InitCheckpoint ==
    /\ source_directory = [exists |-> TRUE, is_dir |-> TRUE, files |-> SaveEvery + 1]
    /\ config \in {c \in UploadConfig : c.retry_delay = 1 /\ c.resume_upload}
    /\ state_file = FileOf(1..(SaveEvery - 1))
    /\ InitRun
    /\ SideIdle

\* A resumed run that finds a state file it did not write in full.
InitCorrupt ==
    /\ source_directory \in {src \in Sources : src.is_dir /\ src.files >= 1}
    /\ config \in {c \in UploadConfig : c.retry_delay = 1 /\ c.resume_upload}
    /\ state_file \in {InvalidJson, NotMapping}
    /\ InitRun
    /\ SideIdle

\* ---- helpers translated from the code ------------------------------------
\* _load_upload_state followed by previous_state.get('completed_files', {}):
\* the completed keys of the file, nothing when there is no file or when
\* json.load rejects it (JSONDecodeError, logged as a warning).
LoadUploadState(file) ==
    IF file.kind = "record" THEN file.completed ELSE {}

\* line 322: previous_state.get(...) on what json.load returned; a value that
\* is not a dict has no get, and the AttributeError is caught nowhere
LoadRaises(cfg, file) == cfg.resume_upload /\ file.kind = "not_mapping"

\* line 321: the file is read only when resume_upload is set
PreviousCompleted(cfg, file) ==
    IF cfg.resume_upload THEN LoadUploadState(file) ELSE {}

\* _save_upload_state: open(..., 'w') + json.dump; an IOError is logged and
\* swallowed, leaving the file as it was.
SaveUploadState(file, completed, ok) ==
    IF ok THEN FileOf(completed) ELSE file

\* answers of s3_client.head_object for a key
HeadAnswers == {"match", "mismatch", "not_found", "error"}

FileExistsInverted(answer) == answer = "mismatch"

\* _file_exists_in_s3 for the answers that return: ContentLength equal to the
\* local size is True, another size or a ClientError is False.
FileExistsInS3(answer) == answer = "match"

ShouldSubmitAlways(key, completed) == TRUE

\* line 352: a task is submitted for the keys that are not in completed_files
ShouldSubmit(key, completed) == key \notin completed

BackoffNextExponent(cfg, attempt) == cfg.retry_delay * Pow2(attempt + 1)

\* line 288: the backoff slept after failed attempt number `attempt` (from 0)
Backoff(cfg, attempt) == cfg.retry_delay * Pow2(attempt)

InRangeInclusive(cfg, attempt) == attempt <= cfg.max_retries

\* line 255: `for attempt in range(self.config.max_retries)`
InRange(cfg, attempt) == attempt < cfg.max_retries

HasMoreAttemptsEarly(cfg, attempt) == attempt < cfg.max_retries - 2

\* line 287: a failed attempt that is not the last one sleeps
HasMoreAttempts(cfg, attempt) == attempt < cfg.max_retries - 1

SimulateNever(cfg) == FALSE

\* line 257: the upload is simulated
SimulateUpload(cfg) == cfg.dry_run

ShouldUnlinkAlways(st, file) == file.kind # "absent"

\* line 387: the state file is removed when nothing failed and it exists
ShouldUnlink(st, file) == st.failed_files = <<>> /\ file.kind # "absent"

\* line 374: the periodic checkpoint
SaveDue(uploaded) == uploaded % SaveEvery = 0

\* what main() hands to the operating system once upload_directory returned:
\* it returns None whatever the job's outcome, so the status is 0
ExitStatusOf(st) == 0

\* line 188: the only test made on the source path
SourceFound(src) == src.exists

\* lines 194-195: source_path.rglob('*') yields the files of a directory and
\* nothing for a path that is not a directory
RGlob(src) == IF src.is_dir THEN src.files ELSE 0

MaxWorkersPlusOne(cfg) == cfg.max_concurrency + 1

\* line 348: ThreadPoolExecutor(max_workers=self.config.max_concurrency)
MaxWorkers(cfg) == cfg.max_concurrency

\* a worker thread that a failed task takes down with it
WorkerLostOnFailure(i) ==
    task[i].st \in {"check", "retry"} \/ task[i].result \in {"false", "raised"}

Running(i) == task[i].st \in {"check", "retry"}
NumRunning == Cardinality({i \in Items : Running(i)})
Queued == {i \in Items : task[i].st = "queued"}

\* ---- the main thread ------------------------------------------------------
\* _scan_directory (lines 185-206) and the early return of lines 309-311.
\* A missing source raises FileNotFoundError, which nothing catches.
ScanDirectory ==
    /\ pc = "scan"
    /\ LET n == RGlob(source_directory) IN
         IF ~SourceFound(source_directory)
         THEN /\ pc' = "done"
              /\ exit_status' = 1
              /\ UNCHANGED <<state, files_to_upload>>
         ELSE /\ files_to_upload' = n
              /\ state' = [state EXCEPT !.total_files = n, !.total_size = SumSizes(n)]
              /\ IF n = 0
                 THEN pc' = "done" /\ exit_status' = ExitStatusOf(state')
                 ELSE pc' = "load" /\ UNCHANGED exit_status
    /\ UNCHANGED <<source_directory, config, state_file, completed_files,
                   previous_completed, next_submit, task, upload_calls,
                   head_calls, head_result, delays, attempt_errors, save_ok,
                   cleared>>
    /\ UNCHANGED side_vars

\* lines 320-322
LoadState ==
    /\ pc = "load"
    /\ IF LoadRaises(config, state_file)
       THEN /\ pc' = "done"
            /\ exit_status' = 1
            /\ UNCHANGED <<completed_files, previous_completed>>
       ELSE /\ completed_files' = PreviousCompleted(config, state_file)
            /\ previous_completed' = completed_files'
            /\ pc' = "submit"
            /\ UNCHANGED exit_status
    /\ UNCHANGED <<source_directory, config, state, state_file,
                   files_to_upload, next_submit, task, upload_calls,
                   head_calls, head_result, delays, attempt_errors, save_ok,
                   cleared>>
    /\ UNCHANGED side_vars

\* one iteration of the loop of lines 351-363
Submit ==
    /\ pc = "submit"
    /\ LET i == next_submit IN
         /\ IF ShouldSubmit(i, completed_files)
            THEN /\ task' = [task EXCEPT ![i].st = "queued"]
                 /\ UNCHANGED state
            ELSE /\ task' = [task EXCEPT ![i].st = "resume_skipped"]
                 /\ state' = [state EXCEPT
                                !.uploaded_files = @ + 1,
                                !.skipped_files = Append(@, i)]
         /\ next_submit' = i + 1
         /\ pc' = IF i = files_to_upload THEN "collect" ELSE "submit"
    /\ UNCHANGED <<source_directory, config, state_file, completed_files,
                   previous_completed, files_to_upload, upload_calls,
                   head_calls, head_result, delays, attempt_errors, save_ok,
                   cleared, exit_status>>
    /\ UNCHANGED side_vars

\* one iteration of the as_completed loop of lines 366-378
Collect(i) ==
    /\ pc = "collect"
    /\ task[i].st = "done"
    /\ task' = [task EXCEPT ![i].st = "processed"]
    /\ CASE task[i].result = "true" ->
              /\ state' = [state EXCEPT !.uploaded_files = @ + 1]
              /\ completed_files' = completed_files \cup {i}
              /\ IF SaveDue(state'.uploaded_files)
                 THEN \E ok \in BOOLEAN :
                        /\ state_file' = SaveUploadState(state_file, completed_files', ok)
                        /\ save_ok' = IF ok THEN "ok" ELSE "ioerror"
                 ELSE UNCHANGED <<state_file, save_ok>>
         [] task[i].result = "raised" ->
              /\ state' = [state EXCEPT !.failed_files = Append(@, i)]
              /\ UNCHANGED <<completed_files, state_file, save_ok>>
         [] OTHER ->
              UNCHANGED <<state, completed_files, state_file, save_ok>>
    /\ UNCHANGED <<source_directory, config, previous_completed,
                   files_to_upload, pc, next_submit, upload_calls, head_calls,
                   head_result, delays, attempt_errors, cleared, exit_status>>
    /\ UNCHANGED side_vars

\* line 381, reached when as_completed is exhausted; then _display_results
FinalSave ==
    /\ pc = "collect"
    /\ \A i \in Items : task[i].st \in {"none", "resume_skipped", "processed"}
    /\ \E ok \in BOOLEAN :
         /\ state_file' = SaveUploadState(state_file, completed_files, ok)
         /\ save_ok' = IF ok THEN "ok" ELSE "ioerror"
    /\ pc' = "cleanup"
    /\ UNCHANGED <<source_directory, config, state, completed_files,
                   previous_completed, files_to_upload, next_submit, task,
                   upload_calls, head_calls, head_result, delays,
                   attempt_errors, cleared, exit_status>>
    /\ UNCHANGED side_vars

\* lines 386-388, then the return to main() and the end of the process
Cleanup ==
    /\ pc = "cleanup"
    /\ IF ShouldUnlink(state, state_file)
       THEN state_file' = NoFile /\ cleared' = TRUE
       ELSE UNCHANGED <<state_file, cleared>>
    /\ pc' = "done"
    /\ exit_status' = ExitStatusOf(state)
    /\ UNCHANGED <<source_directory, config, state, completed_files,
                   previous_completed, files_to_upload, next_submit, task,
                   upload_calls, head_calls, head_result, delays,
                   attempt_errors, save_ok>>
    /\ UNCHANGED side_vars

\* ---- the pool's worker threads --------------------------------------------
\* ThreadPoolExecutor(max_workers=max_concurrency): a free worker takes the
\* oldest queued work item.
TaskPickup(i) ==
    /\ task[i].st = "queued"
    /\ \A j \in Queued : i <= j
    /\ NumRunning < MaxWorkers(config)
    /\ task' = [task EXCEPT ![i].st = "check"]
    /\ UNCHANGED <<source_directory, config, state, state_file,
                   completed_files, previous_completed, files_to_upload, pc,
                   next_submit, upload_calls, head_calls, head_result, delays,
                   attempt_errors, save_ok, cleared, exit_status>>
    /\ UNCHANGED side_vars

\* the head of the retry loop for iteration `attempt`: the body runs while the
\* range lasts, then line 293 returns False
LoopHead(cfg, t, attempt) ==
    IF InRange(cfg, attempt)
    THEN [t EXCEPT !.st = "retry", !.attempt = attempt]
    ELSE [t EXCEPT !.st = "done", !.result = "false", !.attempt = attempt]

\* _upload_file_with_retry, lines 245-252: stat, then the existence check
TaskCheck(i) ==
    /\ task[i].st = "check"
    /\ \E stat_ok \in BOOLEAN :
         IF ~stat_ok
         THEN \* file_path.stat() raises: the future holds the exception
              /\ task' = [task EXCEPT ![i].st = "done", ![i].result = "raised"]
              /\ UNCHANGED <<state, head_calls, head_result>>
         ELSE IF config.resume_upload
         THEN \E answer \in HeadAnswers :
                /\ head_calls' = [head_calls EXCEPT ![i] = @ + 1]
                /\ head_result' = [head_result EXCEPT ![i] = answer]
                /\ IF answer = "error"
                   THEN \* not a ClientError: propagates out of the task
                        /\ task' = [task EXCEPT ![i].st = "done", ![i].result = "raised"]
                        /\ UNCHANGED state
                   ELSE IF FileExistsInS3(answer)
                   THEN /\ state' = [state EXCEPT !.skipped_files = Append(@, i)]
                        /\ task' = [task EXCEPT ![i].st = "done", ![i].result = "true"]
                   ELSE /\ task' = [task EXCEPT ![i] = LoopHead(config, @, 0)]
                        /\ UNCHANGED state
         ELSE /\ task' = [task EXCEPT ![i] = LoopHead(config, @, 0)]
              /\ UNCHANGED <<state, head_calls, head_result>>
    /\ UNCHANGED <<source_directory, config, state_file, completed_files,
                   previous_completed, files_to_upload, pc, next_submit,
                   upload_calls, delays, attempt_errors, save_ok, cleared,
                   exit_status>>
    /\ UNCHANGED side_vars

\* one iteration of the retry loop, lines 255-291. The upload_file call
\* returns or raises; reading the local file for the checksum is taken to
\* succeed.
TaskAttempt(i) ==
    /\ task[i].st = "retry"
    /\ IF SimulateUpload(config)
       THEN /\ task' = [task EXCEPT ![i].st = "done", ![i].result = "true"]
            /\ UNCHANGED <<state, upload_calls, delays, attempt_errors>>
       ELSE /\ upload_calls' = [upload_calls EXCEPT ![i] = @ + 1]
            /\ \E uploaded \in BOOLEAN :
                 IF uploaded
                 THEN /\ task' = [task EXCEPT ![i].st = "done", ![i].result = "true"]
                      /\ UNCHANGED <<state, delays, attempt_errors>>
                 ELSE \* except Exception: log the failed attempt (line 286),
                      \* then back off, or record the failure
                      /\ attempt_errors' = [attempt_errors EXCEPT ![i] = @ + 1]
                      /\ IF HasMoreAttempts(config, task[i].attempt)
                         THEN /\ delays' = [delays EXCEPT
                                    ![i] = Append(@, Backoff(config, task[i].attempt))]
                              /\ UNCHANGED state
                         ELSE /\ state' = [state EXCEPT !.failed_files = Append(@, i)]
                              /\ UNCHANGED delays
                      /\ task' = [task EXCEPT
                                    ![i] = LoopHead(config, @, task[i].attempt + 1)]
    /\ UNCHANGED <<source_directory, config, state_file, completed_files,
                   previous_completed, files_to_upload, pc, next_submit,
                   head_calls, head_result, save_ok, cleared, exit_status>>
    /\ UNCHANGED side_vars

Next ==
    \/ ScanDirectory
    \/ LoadState
    \/ Submit
    \/ \E i \in Items : Collect(i)
    \/ FinalSave
    \/ Cleanup
    \/ \E i \in Items : TaskPickup(i)
    \/ \E i \in Items : TaskCheck(i)
    \/ \E i \in Items : TaskAttempt(i)

Spec == Init /\ [][Next]_vars

\* The scheduler runs every thread that can take a step, and every transport
\* call returns.
InitLive ==
    /\ source_directory \in {src \in Sources : src.is_dir /\ src.files = NumItems}
    /\ config \in {c \in UploadConfig : c.retry_delay = 1}
    /\ state_file = NoFile
    /\ InitRun
    /\ SideIdle

FairSpec == InitLive /\ [][Next]_vars /\ WF_vars(Next)

SpecFromFile == InitFromFile /\ [][Next]_vars

SpecCheckpoint == InitCheckpoint /\ [][Next]_vars

SpecCorrupt == InitCorrupt /\ [][Next]_vars

\* ---- the process killed while it saves -----------------------------------
\* _save_upload_state interrupted: before open(..., 'w') the file is as it
\* was, after the last write it is the new record, and in between open has
\* truncated it and json.dump has written only a prefix of the object.
InterruptedSave(file, completed) == {file, InvalidJson, FileOf(completed)}

\* the process dies in the save of line 381
CrashInFinalSave ==
    /\ pc = "collect"
    /\ \A i \in Items : task[i].st \in {"none", "resume_skipped", "processed"}
    /\ state_file' \in InterruptedSave(state_file, completed_files)
    /\ pc' = "crashed"
    /\ UNCHANGED <<source_directory, config, state, completed_files,
                   previous_completed, files_to_upload, next_submit, task,
                   upload_calls, head_calls, head_result, delays,
                   attempt_errors, save_ok, cleared, exit_status>>
    /\ UNCHANGED side_vars

\* the process dies in the save of line 375
CrashInCheckpoint(i) ==
    /\ pc = "collect"
    /\ task[i].st = "done" /\ task[i].result = "true"
    /\ SaveDue(state.uploaded_files + 1)
    /\ state' = [state EXCEPT !.uploaded_files = @ + 1]
    /\ completed_files' = completed_files \cup {i}
    /\ state_file' \in InterruptedSave(state_file, completed_files')
    /\ pc' = "crashed"
    /\ UNCHANGED <<source_directory, config, previous_completed,
                   files_to_upload, next_submit, task, upload_calls,
                   head_calls, head_result, delays, attempt_errors, save_ok,
                   cleared, exit_status>>
    /\ UNCHANGED side_vars

NextCrash ==
    \/ Next
    \/ CrashInFinalSave
    \/ \E i \in Items : CrashInCheckpoint(i)

InitCrash == InitFromFile \/ InitCheckpoint

SpecCrash == InitCrash /\ [][NextCrash]_vars

\* ---- vocabulary of the properties -----------------------------------------
Scanned == 1..files_to_upload
JobCompleted == pc = "done" /\ source_directory.exists
Ended(i) == task[i].st \in {"done", "processed"}
Count(seq, x) == Cardinality({k \in 1..Len(seq) : seq[k] = x})
FailedSet == SeqToSet(state.failed_files)
SkippedSet == SeqToSet(state.skipped_files)
\* the task of i called the transport and every call raised
Exhausted(i) == Ended(i) /\ upload_calls[i] >= 1 /\ task[i].result # "true"
\* the task of i was uploaded by the transport
Transferred(i) == Ended(i) /\ upload_calls[i] >= 1 /\ task[i].result = "true"

\* C1: in every state uploaded_files + len(failed_files) + len(skipped_files)
\* is at most total_files, and it equals total_files once the job completed.
C1_Accounting ==
    LET sum == state.uploaded_files + Len(state.failed_files)
                   + Len(state.skipped_files)
    IN /\ sum <= state.total_files
       /\ JobCompleted => sum = state.total_files

\* C2: with resume enabled, a key of the loaded record is never given to the
\* pool, no upload_file call is made for it and the submit loop records it as
\* skipped; a run whose record holds every scanned key ends with no upload
\* call and no failure.
C2_ResumeRecordSkips ==
    config.resume_upload =>
      /\ \A i \in previous_completed :
           /\ task[i].st \in {"none", "resume_skipped"}
           /\ upload_calls[i] = 0
           /\ (i \in Scanned /\ (i < next_submit \/ pc \in {"collect", "cleanup", "done"}))
                => /\ task[i].st = "resume_skipped"
                   /\ Count(state.skipped_files, i) = 1
      /\ (JobCompleted /\ Scanned \subseteq previous_completed)
           => /\ \A i \in Items : upload_calls[i] = 0
              /\ state.failed_files = <<>>

C2_Witness ==
    /\ JobCompleted
    /\ config.resume_upload
    /\ files_to_upload = NumItems
    /\ previous_completed = 1..NumItems
    /\ \A i \in Scanned : task[i].st = "resume_skipped" /\ i \in SkippedSet

\* C3: a task calls upload_file at most max_retries times; when every call
\* raised, the task ended with False after exactly max_retries calls and its
\* file is in failed_files once; only files whose own task failed are in
\* failed_files, and the completed job has a final outcome for every file.
C3_RetriesBounded ==
    /\ \A i \in Items :
         /\ upload_calls[i] <= config.max_retries
         /\ Exhausted(i) => /\ task[i].result = "false"
                            /\ upload_calls[i] = config.max_retries
                            /\ Count(state.failed_files, i) = 1
         /\ i \in FailedSet => Ended(i) /\ task[i].result \in {"false", "raised"}
    /\ JobCompleted =>
         \A i \in Scanned : task[i].st \in {"resume_skipped", "processed"}

C3_Witness ==
    /\ JobCompleted
    /\ config.max_retries >= 2
    /\ \E i, j \in Scanned :
         /\ i # j
         /\ Exhausted(i) /\ upload_calls[i] = config.max_retries
         /\ FailedSet = {i}
         /\ Transferred(j) /\ j \in completed_files

\* C4: the k-th backoff of a task (k from 1) is retry_delay * 2^(k-1); a task
\* sleeps after each failed call but the last allowed one, so a task that
\* exhausted its retries slept max_retries - 1 times: 1, 2 for max_retries 3
\* and retry_delay 1.
C4_Backoff ==
    \A i \in Items :
      /\ \A k \in 1..Len(delays[i]) : delays[i][k] = config.retry_delay * 2^(k - 1)
      /\ task[i].st = "retry" => Len(delays[i]) = upload_calls[i]
      /\ Exhausted(i) => Len(delays[i]) = config.max_retries - 1
      /\ Transferred(i) => Len(delays[i]) = upload_calls[i] - 1
      /\ (Exhausted(i) /\ config.max_retries = 3 /\ config.retry_delay = 1)
           => delays[i] = <<1, 2>>

C4_Witness ==
    \E i \in Items :
      /\ config.max_retries = 3 /\ config.retry_delay = 1
      /\ Exhausted(i)
      /\ delays[i] = <<1, 2>>

\* C5: the state file is unlinked only by a job that ends with failed_files
\* empty. A file whose uploads all raised is in failed_files of the completed
\* job (failed_files holds only such files and files whose task raised, once
\* each), the files that were uploaded are marked complete, and the state file
\* is not removed: it holds the record written by the final save.
C5_ClearOnlyWithoutFailures ==
    /\ cleared => state.failed_files = <<>> /\ pc = "done"
    /\ JobCompleted =>
         /\ state.failed_files # <<>> =>
              /\ ~cleared
              /\ save_ok = "ok" => state_file = FileOf(completed_files)
         /\ \A i \in Scanned :
              /\ Exhausted(i) => i \in FailedSet /\ ~cleared
              /\ i \in FailedSet => /\ task[i].result \in {"false", "raised"}
                                    /\ Count(state.failed_files, i) = 1
              /\ task[i].result = "true" => i \in completed_files /\ i \notin FailedSet

C5_Witness ==
    /\ JobCompleted
    /\ files_to_upload = NumItems
    /\ \E i \in Scanned :
         /\ Exhausted(i) /\ upload_calls[i] = config.max_retries
         /\ state.failed_files = <<i>>
         /\ \A j \in Scanned \ {i} : Transferred(j)
         /\ ~cleared
         /\ state_file = FileOf(Scanned \ {i})

\* C6: the exit status of a completed job is 0 exactly when failed_files is
\* empty.
C6_ExitStatus ==
    JobCompleted => (exit_status = 0 <=> state.failed_files = <<>>)

\* C7: a job in which every file is uploaded by its first upload_file call
\* ends with uploaded_files = total_files, nothing skipped, nothing failed and
\* uploaded_size equal to the sum of the sizes of the files.
C7_FreshUpload ==
    (/\ JobCompleted
     /\ files_to_upload >= 1
     /\ ~config.dry_run
     /\ \A i \in Scanned : Transferred(i) /\ upload_calls[i] = 1)
    => /\ state.uploaded_files = state.total_files
       /\ state.skipped_files = <<>>
       /\ state.failed_files = <<>>
       /\ state.uploaded_size = SumSizes(files_to_upload)

\* C8: a key that head_object reports with the local size (which is asked
\* only with resume enabled) is recorded in skipped_files once, its task
\* returns without any upload_file call or backoff; when every file is found
\* this way the job ends with all of them skipped and no upload call.
C8_ExistingSkipped ==
    /\ \A i \in Items :
         head_result[i] = "match" =>
           /\ config.resume_upload
           /\ Ended(i) /\ task[i].result = "true"
           /\ upload_calls[i] = 0 /\ delays[i] = <<>>
           /\ Count(state.skipped_files, i) = 1
    /\ (JobCompleted /\ \A i \in Scanned : head_result[i] = "match")
         => /\ SkippedSet = Scanned
            /\ state.failed_files = <<>>
            /\ \A i \in Items : upload_calls[i] = 0

C8_Witness ==
    /\ JobCompleted
    /\ files_to_upload = NumItems
    /\ \A i \in Scanned : head_result[i] = "match" /\ i \in SkippedSet

\* C9 as stated: with dry_run no transport call of any kind is made (neither
\* upload_file nor head_object), whatever resume_upload is, and the completed
\* job reports every file uploaded.
C9_DryRunNoTransport ==
    config.dry_run =>
      /\ \A i \in Items : upload_calls[i] = 0 /\ head_calls[i] = 0
      /\ JobCompleted => state.uploaded_files = state.total_files

\* C9 amended: with dry_run no upload_file call is made; head_object is not
\* called when resume_upload is off, and is called exactly once for each task
\* that got past its stat when resume_upload is on; a task that reaches the
\* retry loop with an attempt to make returns True without backoff, and the
\* completed job counts in uploaded_files every file skipped from the record
\* or whose task returned True, and marks the latter complete.
C9_DryRunNoUpload ==
    config.dry_run =>
      /\ \A i \in Items :
           /\ upload_calls[i] = 0 /\ delays[i] = <<>>
           /\ ~config.resume_upload => head_calls[i] = 0
           /\ config.resume_upload =>
                /\ head_calls[i] <= 1
                /\ (task[i].st = "retry" \/ (Ended(i) /\ task[i].result # "raised"))
                     => head_calls[i] = 1
           /\ (Ended(i) /\ task[i].result = "false") => config.max_retries = 0
           /\ i \notin FailedSet \/ task[i].result = "raised"
      /\ JobCompleted =>
           /\ state.uploaded_files =
                Cardinality({i \in Scanned : \/ task[i].st = "resume_skipped"
                                             \/ task[i].result = "true"})
           /\ \A i \in Scanned : task[i].result = "true" => i \in completed_files

C9_Witness ==
    /\ JobCompleted
    /\ config.dry_run /\ config.resume_upload
    /\ \E i \in Scanned :
         /\ head_calls[i] = 1 /\ head_result[i] \in {"mismatch", "not_found"}
         /\ task[i].result = "true" /\ upload_calls[i] = 0
         /\ i \in completed_files

\* C10: with dry_run no step of the job changes the state file on disk.
C10_DryRunKeepsFile ==
    [][config.dry_run => state_file' = state_file]_vars

\* C11: a task whose upload_file calls raised k times and then succeeded
\* (k < max_retries) returns True: its file is not in failed_files, its key is
\* marked complete once the result is collected, and exactly k failed-attempt
\* events were logged for it (2 when the third of 3 allowed calls succeeds).
C11_RetryThenSuccess ==
    \A i \in Items :
      Transferred(i) =>
        /\ attempt_errors[i] = upload_calls[i] - 1
        /\ attempt_errors[i] < config.max_retries
        /\ i \notin FailedSet
        /\ task[i].st = "processed" => i \in completed_files
        /\ (config.max_retries = 3 /\ upload_calls[i] = 3) => attempt_errors[i] = 2

C11_Witness ==
    \E i \in Items :
      /\ config.max_retries = 3
      /\ Transferred(i) /\ upload_calls[i] = 3
      /\ task[i].st = "processed"
      /\ attempt_errors[i] = 2
      /\ i \in completed_files /\ i \notin FailedSet

\* C17: the existence check answers True only for an object reported with the
\* local size, and a failing head_object query (not found, or any other error)
\* makes it answer False: it never raises out of the task nor fails the file.
C17_OracleNeverFails ==
    \A i \in Items :
      /\ (head_calls[i] = 1 /\ i \in SkippedSet) => head_result[i] = "match"
      /\ head_result[i] \in {"not_found", "error"} =>
           /\ i \notin SkippedSet
           /\ task[i].st = "retry" \/ upload_calls[i] >= 1 \/ task[i].result # "raised"

\* C19: a source path that does not exist, or that exists but is not a
\* directory, ends the run in _scan_directory with FileNotFoundError (exit
\* status 1) before anything is submitted.
C19_ScanNotFound ==
    (pc # "scan" /\ (~source_directory.exists \/ ~source_directory.is_dir))
      => /\ pc = "done"
         /\ exit_status = 1
         /\ \A i \in Items : task[i].st = "none"

\* C20: at most max_concurrency tasks are executing at any moment (checking,
\* uploading or sleeping between attempts), however many files are queued.
C20_BoundedConcurrency ==
    Cardinality({i \in Items : task[i].st \in {"check", "retry"}})
        <= config.max_concurrency

C20_Witness ==
    /\ Cardinality({i \in Items : task[i].st \in {"check", "retry"}})
         = config.max_concurrency
    /\ \E i \in Items : task[i].st = "queued"
    /\ \E j \in Items : task[j].st = "retry" /\ Len(delays[j]) >= 1

\* C12: whatever tasks fail (retries exhausted, or an exception raised inside
\* the task), a run that has scanned its files eventually completes with the
\* final save made and a final outcome for every scanned file.
C12_FailuresDoNotAbort ==
    (pc = "load") ~>
        (/\ pc = "done"
         /\ save_ok # "none"
         /\ \A i \in Scanned : task[i].st \in {"resume_skipped", "processed"})

C12_Witness ==
    /\ pc = "done"
    /\ save_ok # "none"
    /\ files_to_upload = NumItems
    /\ \E i, j \in Scanned :
         /\ task[i].st = "processed" /\ task[i].result = "raised"
         /\ task[j].st = "processed" /\ task[j].result = "false" /\ j \in FailedSet

\* C13: a run that finds a malformed state file loads no prior state, skips
\* nothing because of it and does not end in a fatal error.
C13_MalformedAsAbsent ==
    pc \notin {"scan", "load"} =>
      /\ previous_completed = {}
      /\ \A i \in Items : task[i].st # "resume_skipped"
      /\ exit_status # 1

\* C14: when the process dies during a save, the state file holds either the
\* content it had before the save or the complete new record.
C14_SaveIsAtomic ==
    [][pc' = "crashed" => state_file' \in {state_file, FileOf(completed_files')}]_vars

\* ---- the state file as JSON text -----------------------------------------
\* The job variables while a study of one function is followed: no run starts.
JobIdle ==
    /\ source_directory = [exists |-> FALSE, is_dir |-> FALSE, files |-> 0]
    /\ config = [max_retries |-> 3, retry_delay |-> 1, max_concurrency |-> 1,
                 resume_upload |-> TRUE, dry_run |-> FALSE]
    /\ state_file = NoFile
    /\ InitRun

\* The characters of a key: "a" stands for any character json writes as it
\* is, the other two are the ones it must escape.
Quote == "\""
Backslash == "\\"
Chars == {"a", Quote, Backslash}
Keys == UNION {[1..n -> Chars] : n \in 0..MaxKeyLen}

\* completed_files as Python holds it: keys in insertion order, each True
Dicts == {d \in UNION {[1..n -> Keys] : n \in 0..MaxKeys} :
            \A a, b \in 1..Len(d) : d[a] = d[b] => a = b}

\* json values, one record shape for all of them
JTrue == [type |-> "true", chars |-> <<>>, members |-> {}]
JString(s) == [type |-> "string", chars |-> s, members |-> {}]
JObject(m) == [type |-> "object", chars |-> <<>>, members |-> m]
JError == [type |-> "error", chars |-> <<>>, members |-> {}]

\* an encoder that writes every character as it is
EscapeNothing(c) == <<c>>

\* json.dump escapes the quote and the backslash inside a string
EscapeChar(c) == IF c \in {Quote, Backslash} THEN <<Backslash, c>> ELSE <<c>>

RECURSIVE Escape(_)
Escape(s) == IF s = <<>> THEN <<>> ELSE EscapeChar(Head(s)) \o Escape(Tail(s))

DumpString(s) == <<Quote>> \o Escape(s) \o <<Quote>>

RECURSIVE DumpMembers(_)
DumpMembers(d) ==
    IF d = <<>> THEN <<>>
    ELSE DumpString(Head(d)) \o <<":", "true">>
           \o (IF Tail(d) = <<>> THEN <<>> ELSE <<",">> \o DumpMembers(Tail(d)))

DumpDict(d) == <<"{">> \o DumpMembers(d) \o <<"}">>

\* json.dump(state_data, f): the object of lines 220-224, without the white
\* space of indent=2; a member name is one element, being made of characters
\* written as they are
JsonDump(d) ==
    <<"{">> \o DumpString(<<"completed_files">>) \o <<":">> \o DumpDict(d)
      \o <<",">> \o DumpString(<<"config">>) \o <<":", "{">>
      \o DumpString(<<"bucket_name">>) \o <<":">> \o DumpString(<<"a">>) \o <<"}">>
      \o <<",">> \o DumpString(<<"timestamp">>) \o <<":">> \o DumpString(<<"a">>)
      \o <<"}">>

\* what the parsing operators return: a value and the text after it, or no
\* value when the text is not JSON
ParseFail == [ok |-> FALSE, val |-> JError, rest |-> <<>>]
Parsed(v, t) == [ok |-> TRUE, val |-> v, rest |-> t]

\* the characters of a string up to its closing quote
RECURSIVE ReadString(_, _)
ReadString(t, acc) ==
    IF t = <<>> THEN ParseFail
    ELSE IF Head(t) = Quote THEN Parsed(JString(acc), Tail(t))
    ELSE IF Head(t) = Backslash
         THEN IF Len(t) >= 2 /\ t[2] \in {Quote, Backslash}
              THEN ReadString(Tail(Tail(t)), Append(acc, t[2]))
              ELSE ParseFail
    ELSE ReadString(Tail(t), Append(acc, Head(t)))

ParseString(t) ==
    IF t # <<>> /\ Head(t) = Quote THEN ReadString(Tail(t), <<>>) ELSE ParseFail

RECURSIVE ParseValue(_)
RECURSIVE ReadMembers(_, _)
\* the members of an object after its opening brace; a repeated name keeps
\* its last value, as a Python dict does
ReadMembers(t, acc) ==
    LET k == ParseString(t) IN
    IF ~k.ok \/ k.rest = <<>> \/ Head(k.rest) # ":" THEN ParseFail
    ELSE LET v == ParseValue(Tail(k.rest)) IN
         IF ~v.ok \/ v.rest = <<>> THEN ParseFail
         ELSE LET m == {q \in acc : q[1] # k.val.chars} \cup {<<k.val.chars, v.val>>} IN
              IF Head(v.rest) = "," THEN ReadMembers(Tail(v.rest), m)
              ELSE IF Head(v.rest) = "}" THEN Parsed(JObject(m), Tail(v.rest))
              ELSE ParseFail

ParseValue(t) ==
    IF t = <<>> THEN ParseFail
    ELSE IF Head(t) = "true" THEN Parsed(JTrue, Tail(t))
    ELSE IF Head(t) = Quote THEN ParseString(t)
    ELSE IF Head(t) = "{"
         THEN IF Len(t) >= 2 /\ t[2] = "}"
              THEN Parsed(JObject({}), Tail(Tail(t)))
              ELSE ReadMembers(Tail(t), {})
    ELSE ParseFail

\* json.load(f): the value of the whole text, JSONDecodeError otherwise
JsonLoad(t) ==
    LET r == ParseValue(t) IN IF r.ok /\ r.rest = <<>> THEN r.val ELSE JError

\* lines 321-322 on a text: _load_upload_state gives {} for text that is not
\* JSON, and .get('completed_files', {}) gives the member or {}
LoadedCompleted(t) ==
    LET v == JsonLoad(t)
        found == IF v.type = "object"
                 THEN {q \in v.members : q[1] = <<"completed_files">>}
                 ELSE {}
    IN IF found = {} THEN {} ELSE (CHOOSE q \in found : TRUE)[2].members

InitCodec ==
    /\ JobIdle
    /\ earlier_runs = FirstRun
    /\ fleet = [phase |-> "idle"]
    /\ path_filter = [phase |-> "idle"]
    /\ codec \in {[phase |-> "start", completed_files |-> d, text |-> <<>>,
                   loaded |-> {}] : d \in Dicts}

\* _save_upload_state(completed_files) that returns without an IOError
CodecSave ==
    /\ codec.phase = "start"
    /\ codec' = [codec EXCEPT !.phase = "saved",
                              !.text = JsonDump(codec.completed_files)]
    /\ UNCHANGED <<job_vars, earlier_runs, fleet, path_filter>>

\* the load of the next run
CodecLoad ==
    /\ codec.phase = "saved"
    /\ codec' = [codec EXCEPT !.phase = "loaded",
                              !.loaded = LoadedCompleted(codec.text)]
    /\ UNCHANGED <<job_vars, earlier_runs, fleet, path_filter>>

NextCodec == CodecSave \/ CodecLoad

SpecCodec == InitCodec /\ [][NextCodec]_vars

\* C16: a completed_files dict that is saved and then loaded comes back with
\* the same keys, each marked True.
C16_RoundTrip ==
    codec.phase = "loaded" =>
        codec.loaded = {<<codec.completed_files[n], JTrue>> :
                          n \in 1..Len(codec.completed_files)}

C16_Witness ==
    /\ codec.phase = "loaded"
    /\ Len(codec.completed_files) = MaxKeys
    /\ \E n \in 1..MaxKeys : Quote \in SeqToSet(codec.completed_files[n])
    /\ \E n \in 1..MaxKeys : Backslash \in SeqToSet(codec.completed_files[n])
    /\ Cardinality(codec.loaded) = MaxKeys

\* ---- the path filter ------------------------------------------------------
\* File names are made of a letter and the dot; the patterns are fnmatch
\* patterns over them: everything, a suffix, one character, hidden files.
NameChars == {"a", "."}
Names == UNION {[1..n -> NameChars] : n \in 1..MaxNameLen}
Patterns == {<<"*">>, <<"*", ".", "a">>, <<"?">>, <<".", "*">>}
PatternLists == UNION {[1..n -> Patterns] : n \in 0..MaxPatterns}

\* fnmatch.fnmatch(file_name, pattern): * is any run of characters, the dot
\* included, ? is one character, anything else is itself
RECURSIVE FnMatch(_, _)
FnMatch(name, pattern) ==
    IF pattern = <<>> THEN name = <<>>
    ELSE IF Head(pattern) = "*"
         THEN FnMatch(name, Tail(pattern))
                \/ (name # <<>> /\ FnMatch(Tail(name), pattern))
    ELSE IF Head(pattern) = "?"
         THEN name # <<>> /\ FnMatch(Tail(name), Tail(pattern))
    ELSE name # <<>> /\ Head(name) = Head(pattern)
           /\ FnMatch(Tail(name), Tail(pattern))

\* "for pattern in patterns: if fnmatch(...): return": the first match ends
\* the loop
RECURSIVE AnyMatch(_, _)
AnyMatch(name, patterns) ==
    IF patterns = <<>> THEN FALSE
    ELSE IF FnMatch(name, Head(patterns)) THEN TRUE
    ELSE AnyMatch(name, Tail(patterns))

\* a filter that looks at the include patterns first
IncludeFirst(file_name, exclude_patterns, include_patterns) ==
    IF AnyMatch(file_name, include_patterns) THEN TRUE
    ELSE FALSE

\* _should_include_file on file_path.name
ShouldIncludeFile(file_name, exclude_patterns, include_patterns) ==
    IF AnyMatch(file_name, exclude_patterns) THEN FALSE
    ELSE IF AnyMatch(file_name, include_patterns) THEN TRUE
    ELSE FALSE

InitFilter ==
    /\ JobIdle
    /\ earlier_runs = FirstRun
    /\ fleet = [phase |-> "idle"]
    /\ codec = [phase |-> "idle"]
    /\ path_filter \in {[phase |-> "calls", exclude_patterns |-> ex,
                         include_patterns |-> inc, calls |-> <<>>] :
                          ex \in PatternLists, inc \in PatternLists}

\* one call of the filter, on any name; two calls are enough to have every
\* pair of names in both orders
FilterCall(name) ==
    /\ path_filter.phase = "calls"
    /\ Len(path_filter.calls) < 2
    /\ path_filter' =
         [path_filter EXCEPT !.calls =
            Append(@, [name |-> name,
                       result |-> ShouldIncludeFile(name,
                                      path_filter.exclude_patterns,
                                      path_filter.include_patterns)])]
    /\ UNCHANGED <<job_vars, earlier_runs, fleet, codec>>

NextFilter == \E name \in Names : FilterCall(name)

SpecFilter == InitFilter /\ [][NextFilter]_vars

Matches(name, patterns) == \E n \in 1..Len(patterns) : FnMatch(name, patterns[n])

Jobs == {1, 2}
Buckets == {"b1", "b2"}
Prefixes == {"p", "q"}
Destinations == [bucket_name : Buckets, s3_prefix : Prefixes]

\* line 109: Path(f".s3_upload_state_{config.bucket_name}.json"); the name is
\* told by the bucket alone
StateFileName(cfg) == cfg.bucket_name

\* disk[name] is the job whose save wrote the file of that name, 0 when there
\* is no such file; read[j] is the writer of the file job j loaded; lost[j]
\* says that the other job wrote over or removed a file job j had written
InitFleet ==
    /\ JobIdle
    /\ earlier_runs = FirstRun
    /\ codec = [phase |-> "idle"]
    /\ path_filter = [phase |-> "idle"]
    /\ fleet \in {[phase |-> "jobs", dest |-> d,
                   at |-> [j \in Jobs |-> "load"],
                   disk |-> [b \in Buckets |-> 0],
                   read |-> [j \in Jobs |-> 0],
                   lost |-> [j \in Jobs |-> FALSE]] :
                    d \in [Jobs -> Destinations]}

\* the writer another job's save or unlink takes the file from
Loser(j, name) ==
    IF fleet.disk[name] \notin {0, j} THEN {fleet.disk[name]} ELSE {}

\* lines 321-322 with resume_upload set
FleetLoad(j) ==
    /\ fleet.phase = "jobs"
    /\ fleet.at[j] = "load"
    /\ fleet' = [fleet EXCEPT !.at[j] = "upload",
                              !.read[j] = fleet.disk[StateFileName(fleet.dest[j])]]
    /\ UNCHANGED <<job_vars, earlier_runs, codec, path_filter>>

\* _save_upload_state writes the file of the job's name
FleetWrite(j, at) ==
    LET name == StateFileName(fleet.dest[j]) IN
    [fleet EXCEPT !.at[j] = at,
                  !.disk[name] = j,
                  !.lost = [k \in Jobs |-> @[k] \/ k \in Loser(j, name)]]

\* the save of line 375
FleetCheckpoint(j) ==
    /\ fleet.phase = "jobs"
    /\ fleet.at[j] = "upload"
    /\ fleet' = FleetWrite(j, "upload")
    /\ UNCHANGED <<job_vars, earlier_runs, codec, path_filter>>

\* the save of line 381
FleetFinalSave(j) ==
    /\ fleet.phase = "jobs"
    /\ fleet.at[j] = "upload"
    /\ fleet' = FleetWrite(j, "cleanup")
    /\ UNCHANGED <<job_vars, earlier_runs, codec, path_filter>>

\* lines 387-388: the file goes when the job had no failure and it exists
FleetCleanup(j) ==
    /\ fleet.phase = "jobs"
    /\ fleet.at[j] = "cleanup"
    /\ \E no_failures \in BOOLEAN :
         LET name == StateFileName(fleet.dest[j]) IN
         IF no_failures /\ fleet.disk[name] # 0
         THEN fleet' = [fleet EXCEPT
                          !.at[j] = "ended",
                          !.disk[name] = 0,
                          !.lost = [k \in Jobs |-> @[k] \/ k \in Loser(j, name)]]
         ELSE fleet' = [fleet EXCEPT !.at[j] = "ended"]
    /\ UNCHANGED <<job_vars, earlier_runs, codec, path_filter>>

NextFleet ==
    \E j \in Jobs :
      \/ FleetLoad(j)
      \/ FleetCheckpoint(j)
      \/ FleetFinalSave(j)
      \/ FleetCleanup(j)

SpecFleet == InitFleet /\ [][NextFleet]_vars

\* C15: two jobs whose (bucket, prefix) destinations differ never load a
\* state file the other wrote, and never write over or remove the other's.
C15_DistinctJobsApart ==
    (fleet.phase = "jobs" /\ fleet.dest[1] # fleet.dest[2]) =>
      \A j \in Jobs : fleet.read[j] \in {0, j} /\ ~fleet.lost[j]

\* ---- accounting of task outcomes ------------------------------------------
\* C21: JobState changes only in steps of the orchestrator: no step of a
\* running upload task changes a counter or the failed or skipped list.
C21_SingleAggregationPoint ==
    [][state' # state => \A i \in Items : Running(i) => task'[i] = task[i]]_vars

\* C24: a job that ends with no failure recorded and the state file cleared
\* has uploaded, simulated or skipped every scanned file.
C24_SuccessMeansAllDone ==
    (JobCompleted /\ state.failed_files = <<>> /\ cleared) =>
      \A i \in Scanned :
        \/ task[i].st = "resume_skipped"
        \/ task[i].st = "processed" /\ task[i].result = "true"

\* C25: a file whose task ended in failure is in failed_files exactly once,
\* and its key is neither in completed_files nor in a record this run saved.
C25_FailedRecordedOnce ==
    \A i \in Items :
      (task[i].st = "processed" /\ task[i].result \in {"false", "raised"}) =>
        /\ Count(state.failed_files, i) = 1
        /\ i \notin completed_files
        /\ (save_ok = "ok" /\ state_file.kind = "record") => i \notin state_file.completed

\* ---- runs one after the other ---------------------------------------------
\* the keys whose object this run has put in the bucket (upload_file
\* returned) or found there (head_object reported it with the same size)
StoredByRun ==
    {i \in Items : \/ upload_calls[i] >= 1 /\ task[i].result = "true"
                   \/ head_result[i] = "match"}

\* One file, no state file, and any configuration.
InitRuns ==
    /\ source_directory = [exists |-> TRUE, is_dir |-> TRUE, files |-> 1]
    /\ config \in {c \in UploadConfig : c.retry_delay = 1}
    /\ state_file = NoFile
    /\ InitRun
    /\ SideIdle

\* The process has ended, or is killed where it stands, and main() is
\* started again on the same directory and bucket with options of its own;
\* only the state file is carried over.
NextRun ==
    /\ earlier_runs.runs < MaxRuns
    /\ earlier_runs' = [runs |-> earlier_runs.runs + 1,
                        stored |-> earlier_runs.stored \cup StoredByRun]
    /\ config' \in {c \in UploadConfig : c.retry_delay = 1}
    /\ state' = UploadState
    /\ completed_files' = {}
    /\ previous_completed' = {}
    /\ files_to_upload' = 0
    /\ pc' = "scan"
    /\ next_submit' = 1
    /\ task' = [i \in Items |-> NewTask]
    /\ upload_calls' = [i \in Items |-> 0]
    /\ head_calls' = [i \in Items |-> 0]
    /\ head_result' = [i \in Items |-> "none"]
    /\ delays' = [i \in Items |-> <<>>]
    /\ attempt_errors' = [i \in Items |-> 0]
    /\ save_ok' = "none"
    /\ cleared' = FALSE
    /\ exit_status' = -1
    /\ UNCHANGED <<source_directory, state_file, fleet, codec, path_filter>>

NextRuns ==
    \/ Next
    \/ CrashInFinalSave
    \/ NextRun

SpecRuns == InitRuns /\ [][NextRuns]_vars

\* C23: a run that is no dry run skips a file on the strength of the loaded
\* record only when an earlier run uploaded its object or found it in the
\* bucket.
C23_SkipOnlyStored ==
    \A i \in Items :
      (~config.dry_run /\ task[i].st = "resume_skipped") => i \in earlier_runs.stored

\* ---- when the record is saved ---------------------------------------------
\* the tasks of this run whose success the collect loop has seen
Successes == {i \in Items : task[i].st = "processed" /\ task[i].result = "true"}

\* C22: the collect loop writes the record at a successful completion exactly
\* when it is the 10th, 20th, ... of the run, and the record is saved once more
\* when the loop has ended, failures or not, before the file can be removed.
C22_SaveEveryTenth ==
    [][/\ (pc = "collect" /\ pc' = "collect" /\ state_file' # state_file)
            => Cardinality(Successes') % SaveEvery = 0
       /\ (Successes' # Successes /\ Cardinality(Successes') % SaveEvery = 0)
            => save_ok' # "none"
       /\ (pc = "collect" /\ pc' = "cleanup") => save_ok' # "none"]_vars

\* C26: while a job runs and its saves succeed, and when it is killed, fewer
\* than 10 keys of completed_files are missing from what the state file
\* gives back.
C26_CrashLossBound ==
    (pc # "done" /\ save_ok # "ioerror") =>
      Cardinality(completed_files \ LoadUploadState(state_file)) < SaveEvery

====
